---- MODULE Spec2Model ----
(***************************************************************************)
(* Resilient request client of the frontend API layer: apiRequest (timeout *)
(* race, retry loop, backoff), CircuitBreaker and the three breaker-bound  *)
(* operations of PotarinApiClient.  Every action is one run-to-completion  *)
(* segment of the event loop: the code between two awaits, together with   *)
(* the promise continuations it triggers in the same microtask checkpoint. *)
(*                                                                         *)
(* Time is in milliseconds and is kept relative: the program reads the     *)
(* clock only as Date.now() - lastFailureTime and through setTimeout, so   *)
(* the state holds the time since a breaker's last failure (sinceFailure)  *)
(* and the time left on each pending timer, and Tick moves them together.  *)
(* A timer's callback runs when its time is up; time does not pass a       *)
(* pending timer.                                                          *)
(*                                                                         *)
(* useConnectionStatus is the connectivity monitor: its two effects, the   *)
(* window's online and offline events and its polling interval.  A state   *)
(* update, the render it causes and the effects of that render are one     *)
(* step.  The hook is unmounted until Mount.                               *)
(***************************************************************************)
EXTENDS Integers, Sequences, FiniteSets, TLC

VARIABLES
    breaker,    \* circuitBreakers: endpoint -> [failures, sinceFailure, state]
    calls,      \* the calls in progress: slot -> the locals of execute / apiRequest
    hist,       \* observation only: endpoint -> what the claims need of the past
    started,    \* observation only: the number of calls made by callers so far
    monitor     \* useConnectionStatus: its state, its interval, its probes

vars == <<breaker, calls, hist, started, monitor>>

---------------------------------------------------------------------------
\* Bounds of the model.

NumCalls == 2
MaxStarts == 8
MaxFailures == 7
MaxProbes == 4
MaxCallerStarts == 2
MaxMixedStarts == 4
MaxLoopStarts == 6
MaxLiveStarts == 4

Calls == 1..NumCalls

---------------------------------------------------------------------------
\* Configuration.

Endpoints == {"health", "suggestions", "details"}

\* every operation run through the health breaker
BreakerOfShared(e) == "health"

\* circuitBreakers.health / .suggestions / .details: the breaker an
\* operation runs its request through
BreakerOf(e) == e

DEFAULT_RETRY_COUNT == 3
DEFAULT_RETRY_DELAY == 1000

HealthThreshold == 3
HealthCooldown == 30000
AiThreshold == 5
AiCooldown == 60000

HealthTimeout == 5000
IsHealthyTimeout == 3000
AiTimeout == 45000

HealthRetries == 2
HealthDelay == 500
AiRetries == 3
AiDelay == 2000

\* RETRY_CONFIG[endpoint]?.retries ?? DEFAULT_RETRY_COUNT, and the same for delay
ConfigRetries(e) ==
    IF e = "health" THEN HealthRetries
    ELSE IF e \in {"suggestions", "details"} THEN AiRetries
    ELSE DEFAULT_RETRY_COUNT

ConfigDelay(e) ==
    IF e = "health" THEN HealthDelay
    ELSE IF e \in {"suggestions", "details"} THEN AiDelay
    ELSE DEFAULT_RETRY_DELAY

\* new CircuitBreaker(threshold, timeout) per endpoint
Threshold(e) == IF e = "health" THEN HealthThreshold ELSE AiThreshold
Cooldown(e) == IF e = "health" THEN HealthCooldown ELSE AiCooldown

\* the timeout option a caller can reach: health() and isHealthy() for the
\* health endpoint, the 45 s default of the AI-backed operations
Timeouts(e) ==
    IF e = "health" THEN {HealthTimeout, IsHealthyTimeout} ELSE {AiTimeout}

\* options.retries: absent (-1 here: the endpoint's RETRY_CONFIG applies) or
\* a per-call override; health() passes none
NoOverride == -1
RetryOverrides(e) == IF e = "health" THEN {NoOverride} ELSE {NoOverride, 0, 1}

\* HTTP statuses the backend answers with, and what the body read yields
Statuses == {200, 404, 408, 429, 499, 500, 599}
Bodies == {"json", "empty", "garbage", "readfail"}

---------------------------------------------------------------------------
\* Error values.  cls is the JavaScript class of the thrown value; a value
\* whose cls is not one of the ApiError classes is a bare exception.

Err(cls, status, code, retryable) ==
    [cls |-> cls, status |-> status, errorCode |-> code, isRetryable |-> retryable]

NoError == Err("none", 0, "", FALSE)
OkResult == Err("ok", 200, "", FALSE)

\* new ApiError(message, status, errorCode, details, isRetryable = false)
ApiError(status, code, retryable) == Err("ApiError", status, code, retryable)
\* new NetworkError()
NetworkError == Err("NetworkError", 0, "network_error", TRUE)
\* new TimeoutError()
TimeoutError == Err("TimeoutError", 408, "timeout_error", TRUE)
\* what fetch rejects with: a TypeError "Failed to fetch", or another exception
FailedToFetch == Err("TypeError", 0, "Failed to fetch", FALSE)
OtherException == Err("Error", 0, "other", FALSE)

\* error instanceof ApiError
InstanceOfApiError(err) == err.cls \in {"ApiError", "NetworkError", "TimeoutError"}

\* static ApiError.isRetryable(error); the message of a bare exception is
\* kept in errorCode
ApiError_isRetryable(err) ==
    IF InstanceOfApiError(err)
    THEN \/ err.isRetryable
         \/ err.status >= 500
         \/ err.status = 429
         \/ err.status = 408
         \/ err.status = 0
    ELSE err.errorCode \in {"Failed to fetch", "NetworkError", "timeout"}

---------------------------------------------------------------------------
\* CircuitBreaker

\* breaker[e].sinceFailure is Date.now() - lastFailureTime while the state is
\* OPEN, the only state in which execute reads the clock (every way into OPEN
\* is onFailure, which sets lastFailureTime first).  It is kept exactly up to
\* the first instant after the cooldown: no comparison of the program tells
\* longer times apart.  In the other states it rests at its last value.
Elapsed(e) == Cooldown(e) + 1
Age(e, t) == IF t >= Elapsed(e) THEN Elapsed(e) ELSE t

\* a breaker constructed in the OPEN state
NewBreakerOpen == [failures |-> 0, sinceFailure |-> 0, state |-> "OPEN"]

\* failures = 0, lastFailureTime = 0, state = 'CLOSED'
NewBreaker == [failures |-> 0, sinceFailure |-> 0, state |-> "CLOSED"]

\* a cooldown test that never holds a call back
CooldownOverAlways(b, e) == TRUE

\* Date.now() - this.lastFailureTime > this.timeout
CooldownOver(b, e) == b.sinceFailure > Cooldown(e)

\* execute, before the try: the call is thrown out with 'Circuit breaker is open'
Rejects(b, e) == b.state = "OPEN" /\ ~CooldownOver(b, e)

\* an execute that counts the call it throws out as a failure
AdmitCountsRejection(b, e) ==
    IF b.state = "OPEN"
    THEN IF CooldownOver(b, e)
         THEN [b EXCEPT !.state = "HALF_OPEN"]
         ELSE [b EXCEPT !.failures = @ + 1, !.sinceFailure = 0]
    ELSE b

\* execute, before the try: the breaker as the admitted call leaves it
Admit(b, e) ==
    IF b.state = "OPEN" /\ CooldownOver(b, e)
    THEN [b EXCEPT !.state = "HALF_OPEN"]
    ELSE b

CircuitOpenError == ApiError(503, "circuit_breaker_open", FALSE)

\* a success that closes the breaker and keeps the count
onSuccessKeepsCount(b) == [b EXCEPT !.state = "CLOSED"]

\* a success that resets the count and leaves the state as it is
onSuccessNoClose(b) == [b EXCEPT !.failures = 0]

onSuccess(b) == [b EXCEPT !.failures = 0, !.state = "CLOSED"]

\* a failure that opens the breaker whatever the count
onFailureAlwaysOpens(b, e) ==
    [failures |-> b.failures + 1, sinceFailure |-> 0, state |-> "OPEN"]

\* this.lastFailureTime = Date.now(): no time since the last failure
onFailure(b, e) ==
    [failures |-> b.failures + 1,
     sinceFailure |-> 0,
     state |-> IF b.failures + 1 >= Threshold(e) THEN "OPEN" ELSE b.state]

---------------------------------------------------------------------------
\* apiRequest

\* a lookup that misses the endpoint's entry and falls to the default
RetriesDefaultOnly(e, override) ==
    IF override = NoOverride THEN DEFAULT_RETRY_COUNT ELSE override

\* retries = RETRY_CONFIG[endpoint]?.retries ?? DEFAULT_RETRY_COUNT, the
\* default of the destructured option
Retries(e, override) == IF override = NoOverride THEN ConfigRetries(e) ELSE override

\* retryDelay * Math.pow(2, attempt)
RECURSIVE Pow2(_)
Pow2(n) == IF n <= 0 THEN 1 ELSE 2 * Pow2(n - 1)

BackoffDelay(retryDelay, attempt) == retryDelay * Pow2(attempt)

\* every error status taken as retryable
IsRetryableStatusAny(status) == status >= 400

\* only the server's errors taken as retryable
IsRetryableStatusServerOnly(status) == status >= 500

\* response.status >= 500 || response.status === 429 || response.status === 408
IsRetryableStatus(status) == status >= 500 \/ status = 429 \/ status = 408

\* response.ok
IsOk(status) == status >= 200 /\ status <= 299

NoTimer == -1

\* pc: where the call awaits ("fetching": the race of fetch and the timeout
\* promise; "reading": response.text(); "backoff": delay(delayMs)).
\* timer: the time left on the pending setTimeout of the attempt or the delay.
IdleCall ==
    [pc |-> "idle", endpoint |-> "none", timeout |-> 0, retries |-> 0,
     retryDelay |-> 0, attempt |-> 0, timer |-> NoTimer,
     lastError |-> NoError, respStatus |-> 0, result |-> NoError,
     \* observation only: fetches made, time waited since the last failed
     \* attempt, the wait before the current attempt, how the breaker let the
     \* call in, a deadline that expired on an attempt that went on, whether
     \* every response so far was an HTTP 500, and options.retries
     attemptsMade |-> 0, waited |-> 0, lastWait |-> 0, role |-> "none",
     overrun |-> FALSE, all500 |-> TRUE, override |-> NoOverride,
     \* how isHealthy's promise settled, for a call made through isHealthy,
     \* and whether the call is the monitor's checkHealth
     healthy |-> "none", probe |-> FALSE]

InFlight(cl) == cl.pc \in {"fetching", "reading", "backoff"}

\* one iteration's fetch: fetch(url, requestOptions) raced against
\* createTimeoutPromise(timeout); wait is the time since the failure before
Fetch(cl, wait) ==
    [cl EXCEPT !.pc = "fetching", !.timer = cl.timeout, !.respStatus = 0,
               !.attemptsMade = @ + 1, !.lastWait = wait, !.waited = 0]

\* apiRequest's promise rejects with err
Throw(cl, err) ==
    [cl EXCEPT !.pc = "done", !.result = err, !.timer = NoTimer, !.respStatus = 0]

\* apiRequest's promise resolves
Return(cl) ==
    [cl EXCEPT !.pc = "done", !.result = OkResult, !.timer = NoTimer,
               !.respStatus = 0]

\* the for statement's attempt++ and attempt <= retries after an iteration
\* that neither returned nor threw, and the throw after the loop
LoopNext(cl, wait) ==
    IF cl.attempt + 1 <= cl.retries
    THEN Fetch([cl EXCEPT !.attempt = @ + 1], wait)
    ELSE Throw(cl, IF cl.lastError.cls # "none" THEN cl.lastError ELSE NetworkError)

\* the last attempt's throw without the conversion
SurfaceRaw(lastError) == lastError

\* the last attempt's throw: lastError if it is an ApiError, otherwise
\* new NetworkError(message)
Surface(lastError) ==
    IF InstanceOfApiError(lastError) THEN lastError ELSE NetworkError

\* the wait of the catch block: await delay(retryDelay * Math.pow(2, attempt))
Backoff(cl, lastError) ==
    [cl EXCEPT !.pc = "backoff", !.lastError = lastError, !.respStatus = 0,
               !.waited = 0, !.timer = BackoffDelay(cl.retryDelay, cl.attempt)]

\* a catch block that retries whatever the error
CatchRetriesAll(cl, error) ==
    IF cl.attempt = cl.retries
    THEN Throw([cl EXCEPT !.lastError = error], Surface(error))
    ELSE Backoff(cl, error)

\* the catch block of the loop body
Catch(cl, error) ==
    LET lastError ==
            IF error.cls = "TypeError" /\ error.errorCode = "Failed to fetch"
            THEN NetworkError ELSE error
    IN  IF /\ error.cls # "TimeoutError"
           /\ ~(error.cls = "TypeError" /\ error.errorCode = "Failed to fetch")
           /\ InstanceOfApiError(error) /\ ~error.isRetryable
        THEN Throw([cl EXCEPT !.lastError = lastError], error)
        ELSE IF cl.attempt = cl.retries
        THEN Throw([cl EXCEPT !.lastError = lastError], Surface(lastError))
        ELSE Backoff(cl, lastError)

\* the !response.ok branch, after the error body was read
NotOkBranch(cl, status) ==
    LET isRetryable == IsRetryableStatus(status)
        apiError == ApiError(status, "http_error", isRetryable)
    IN  IF ~isRetryable /\ cl.attempt < cl.retries
        THEN Catch(cl, apiError)
        ELSE IF cl.attempt = cl.retries
        THEN Catch([cl EXCEPT !.lastError = apiError], apiError)
        ELSE LoopNext([cl EXCEPT !.lastError = apiError], 0)

\* the response.ok branch, after the body was read
OkBranch(cl, status, body) ==
    IF body = "empty" \/ body = "json" THEN Return(cl)
    ELSE IF body = "garbage"
    THEN Catch(cl, ApiError(status, "parse_error", FALSE))
    ELSE Catch(cl, OtherException)

---------------------------------------------------------------------------
\* State machine

\* hist[e].sinceThreshold: the time since the failure that brought failures
\* to the threshold; hist[e].sinceTrialFailed: the time since a call let in
\* after the cooldown failed; hist[e].sinceOpened: the time since the state
\* last changed to OPEN
NoHist(e) ==
    [sinceThreshold |-> Elapsed(e), sinceTrialFailed |-> Elapsed(e),
     sinceOpened |-> Elapsed(e)]

\* setInterval(checkHealth, 30000)
PollInterval == 30000

\* useState(true), useState(null), no interval; sinceProbe and probes are
\* observation only: the time since checkHealth was last called, kept up to
\* the first instant after a polling period, and the number of its calls
NoMonitor ==
    [mounted |-> FALSE, isOnline |-> TRUE, isApiHealthy |-> "null",
     interval |-> NoTimer, sinceProbe |-> PollInterval + 1, probes |-> 0]

Init ==
    /\ breaker = [e \in Endpoints |-> NewBreaker]
    /\ calls = [c \in Calls |-> IdleCall]
    /\ hist = [e \in Endpoints |-> NoHist(e)]
    /\ started = 0
    /\ monitor = NoMonitor

\* a report that counts only the retryable errors as failures
ReportRetryableOnly(b, cl) ==
    IF cl.result.cls = "ok" THEN onSuccess(b)
    ELSE IF cl.result.isRetryable THEN onFailure(b, cl.endpoint)
    ELSE b

\* execute's continuation after await fn(): onSuccess or onFailure
Report(b, cl) ==
    IF cl.result.cls = "ok" THEN onSuccess(b) ELSE onFailure(b, cl.endpoint)

Remember(b, h, cl) ==
    IF cl.result.cls = "ok" THEN h
    ELSE [sinceThreshold |-> IF b.failures + 1 = Threshold(cl.endpoint)
                             THEN 0 ELSE h.sinceThreshold,
          sinceTrialFailed |-> IF cl.role = "trial" THEN 0 ELSE h.sinceTrialFailed,
          sinceOpened |-> IF b.state # "OPEN" /\ Report(b, cl).state = "OPEN"
                          THEN 0 ELSE h.sinceOpened]

\* a health call with the 3 s timeout is the one isHealthy makes
ViaIsHealthy(cl) == cl.endpoint = "health" /\ cl.timeout = IsHealthyTimeout

\* an isHealthy that lets the error of the health call through
isHealthyRethrows(result) == IF result.cls = "ok" THEN "true" ELSE "raised"

\* isHealthy: try { await health({ timeout: 3000 }); return true }
\* catch { return false }
isHealthy(result) == IF result.cls = "ok" THEN "true" ELSE "false"

\* the settled call as its caller sees it: through isHealthy where it was
\* made through isHealthy
Finish(cl) ==
    IF cl.pc = "done" /\ ViaIsHealthy(cl)
    THEN [cl EXCEPT !.healthy = isHealthy(cl.result)]
    ELSE cl

\* checkHealth after await api.isHealthy(): setIsApiHealthy(healthy), or
\* setIsApiHealthy(false) in its catch
Concluded(healthy) == IF healthy = "true" THEN "true" ELSE "false"

\* a loop that reports every failed attempt to the breaker
StepReportsAlways(c, cl) ==
    LET k == BreakerOf(cl.endpoint)
    IN  /\ calls' = [calls EXCEPT ![c] = Finish(cl)]
        /\ breaker' = [breaker EXCEPT ![k] =
                IF cl.pc = "done" THEN Report(@, cl) ELSE onFailure(@, cl.endpoint)]
        /\ UNCHANGED <<hist, started, monitor>>

\* call c's apiRequest has run up to its next await, or has settled: when it
\* has settled, execute reports the outcome to the endpoint's breaker, and
\* the continuations of isHealthy and checkHealth run
Step(c, cl) ==
    LET e == cl.endpoint
        k == BreakerOf(e)
    IN  /\ calls' = [calls EXCEPT ![c] = Finish(cl)]
        /\ IF cl.pc = "done"
           THEN /\ cl.result.cls # "ok" => breaker[k].failures < MaxFailures
                /\ breaker' = [breaker EXCEPT ![k] = Report(@, cl)]
                /\ hist' = [hist EXCEPT ![k] = Remember(breaker[k], @, cl)]
                /\ monitor' = IF cl.probe
                              THEN [monitor EXCEPT
                                        !.isApiHealthy = Concluded(Finish(cl).healthy)]
                              ELSE monitor
           ELSE UNCHANGED <<breaker, hist, monitor>>
        /\ UNCHANGED started

\* CircuitBreaker.execute up to its await, with apiRequest up to its first
\* await: the call as it stands then, thrown out by breaker b or fetching
Entered(b, e, timeout, override, probe) ==
    LET fresh == [IdleCall EXCEPT
                    !.endpoint = e, !.timeout = timeout, !.override = override,
                    !.retries = Retries(e, override),
                    !.retryDelay = ConfigDelay(e), !.probe = probe]
    IN  IF Rejects(b, e)
        THEN Finish(Throw(fresh, CircuitOpenError))
        ELSE Fetch([fresh EXCEPT !.role = IF b.state = "OPEN" THEN "trial"
                                          ELSE "normal"], 0)

\* PotarinApiClient.health / getSuggestions / getDetails, called by a caller
Start(c, e, timeout, override) ==
    LET k == BreakerOf(e)
    IN  /\ calls[c].pc \in {"idle", "done"}
        /\ started < MaxStarts
        /\ started' = started + 1
        /\ calls' = [calls EXCEPT ![c] =
                        Entered(breaker[k], e, timeout, override, FALSE)]
        /\ breaker' = [breaker EXCEPT ![k] = Admit(@, e)]
        /\ UNCHANGED <<hist, monitor>>

\* fetch resolves before the deadline: the response's status line and headers
FetchResolves(c, status) ==
    /\ calls[c].pc = "fetching"
    /\ calls' = [calls EXCEPT ![c] =
            [@ EXCEPT !.pc = "reading", !.respStatus = status,
                      !.all500 = @ /\ status = 500]]
    /\ UNCHANGED <<breaker, hist, started, monitor>>

\* fetch rejects before the deadline
FetchRejects(c, error) ==
    /\ calls[c].pc = "fetching"
    /\ Step(c, Catch([calls[c] EXCEPT !.all500 = FALSE], error))

\* the timer of createTimeoutPromise fires while the race is undecided
DeadlineFires(c) ==
    /\ calls[c].pc = "fetching"
    /\ calls[c].timer = 0
    /\ Step(c, Catch([calls[c] EXCEPT !.all500 = FALSE], TimeoutError))

\* the timer of createTimeoutPromise fires after fetch won the race: the
\* rejection is dropped and the attempt goes on
DeadlineIgnored(c) ==
    /\ calls[c].pc = "reading"
    /\ calls[c].timer = 0
    /\ calls' = [calls EXCEPT ![c] = [@ EXCEPT !.timer = NoTimer, !.overrun = TRUE]]
    /\ UNCHANGED <<breaker, hist, started, monitor>>

\* await response.text() settles
BodyArrives(c, body) ==
    /\ calls[c].pc = "reading"
    /\ Step(c, IF IsOk(calls[c].respStatus)
               THEN OkBranch(calls[c], calls[c].respStatus, body)
               ELSE NotOkBranch(calls[c], calls[c].respStatus))

\* the loop going on without awaiting the delay
BackoffEndsEarly(c) ==
    /\ calls[c].pc = "backoff"
    /\ Step(c, LoopNext([calls[c] EXCEPT !.timer = NoTimer], calls[c].waited))

\* the timer of delay(delayMs) fires
BackoffEnds(c) ==
    /\ calls[c].pc = "backoff"
    /\ calls[c].timer = 0
    /\ Step(c, LoopNext(calls[c], calls[c].waited))

\* the slot of calls in which the monitor's checkHealth runs; a probe has
\* settled by the time the next one is made
ProbeSlot == NumCalls

\* the cleanup that leaves the interval running
clearIntervalForgotten(m) == m

\* the cleanup of the polling effect: clearInterval(intervalId)
clearInterval(m) == [m EXCEPT !.interval = NoTimer]

\* checkHealth(): api.isHealthy() up to its first await, or through to
\* setIsApiHealthy(false) when the health breaker throws the call out; m is
\* the monitor as the handler that calls checkHealth leaves it
checkHealth(m) ==
    LET k == BreakerOf("health")
        cl == Entered(breaker[k], "health", IsHealthyTimeout, NoOverride, TRUE)
    IN  /\ calls[ProbeSlot].pc \in {"idle", "done"}
        /\ monitor.probes < MaxProbes
        /\ calls' = [calls EXCEPT ![ProbeSlot] = cl]
        /\ breaker' = [breaker EXCEPT ![k] = Admit(@, "health")]
        /\ monitor' = [m EXCEPT !.sinceProbe = 0, !.probes = @ + 1,
                                !.isApiHealthy = IF cl.pc = "done"
                                                 THEN Concluded(cl.healthy) ELSE @]
        /\ UNCHANGED <<hist, started>>

\* the polling effect, run after a render with a new isOnline: checkHealth()
\* and setInterval(checkHealth, 30000) when online, setIsApiHealthy(false)
\* otherwise
PollingEffect(m) ==
    IF m.isOnline
    THEN checkHealth([m EXCEPT !.interval = PollInterval])
    ELSE /\ monitor' = [m EXCEPT !.isApiHealthy = "false"]
         /\ UNCHANGED <<breaker, calls, hist, started>>

\* the first render of a component that uses the hook
Mount ==
    /\ ~monitor.mounted
    /\ PollingEffect([monitor EXCEPT !.mounted = TRUE])

\* window's 'online' event: setIsOnline(true); no render when it was true
handleOnline ==
    /\ monitor.mounted
    /\ IF monitor.isOnline
       THEN UNCHANGED vars
       ELSE PollingEffect(clearInterval([monitor EXCEPT !.isOnline = TRUE]))

\* window's 'offline' event: setIsOnline(false); no render when it was false
handleOffline ==
    /\ monitor.mounted
    /\ IF ~monitor.isOnline
       THEN UNCHANGED vars
       ELSE PollingEffect(clearInterval([monitor EXCEPT !.isOnline = FALSE]))

\* the interval's timer fires: checkHealth(), and the next period begins
IntervalFires ==
    /\ monitor.interval = 0
    /\ checkHealth([monitor EXCEPT !.interval = PollInterval])

\* the time left on the pending timers
PendingTimers ==
    {calls[c].timer : c \in {d \in Calls : calls[d].timer # NoTimer}}
    \cup (IF monitor.interval # NoTimer THEN {monitor.interval} ELSE {})

\* the time to the instants at which the program's behaviour can change: a
\* timer's end, a cooldown's last instant and the first one after it
Instants ==
    PendingTimers
    \cup UNION {{Cooldown(e) - breaker[e].sinceFailure,
                 Cooldown(e) + 1 - breaker[e].sinceFailure} :
                    e \in {x \in Endpoints : breaker[x].state = "OPEN"}}

Tick ==
    \E d \in Instants :
        /\ d > 0
        /\ \A t \in PendingTimers : d <= t
        /\ breaker' = [e \in Endpoints |->
                [breaker[e] EXCEPT !.sinceFailure =
                    IF breaker[e].state = "OPEN" THEN Age(e, @ + d) ELSE @]]
        /\ hist' = [e \in Endpoints |->
                [sinceThreshold |-> Age(e, hist[e].sinceThreshold + d),
                 sinceTrialFailed |-> Age(e, hist[e].sinceTrialFailed + d),
                 sinceOpened |-> Age(e, hist[e].sinceOpened + d)]]
        /\ calls' = [c \in Calls |->
                [calls[c] EXCEPT
                    !.timer = IF @ = NoTimer THEN @ ELSE @ - d,
                    !.waited = IF calls[c].pc = "backoff" THEN @ + d ELSE @]]
        /\ monitor' = [monitor EXCEPT
                    !.interval = IF @ = NoTimer THEN @ ELSE @ - d,
                    !.sinceProbe = IF @ + d > PollInterval
                                   THEN PollInterval + 1 ELSE @ + d]
        /\ UNCHANGED started

\* The callers of one run use one endpoint: the breakers share no state, and
\* a run of each endpoint is checked.
OneEndpoint(e) == \A c \in Calls : calls[c].endpoint \in {"none", e}

Call(c) ==
    \E e \in Endpoints :
        \E timeout \in Timeouts(e), override \in RetryOverrides(e) :
            OneEndpoint(e) /\ Start(c, e, timeout, override)

\* the timeout an operation passes when its caller gives none
DefaultTimeout(e) == IF e = "health" THEN HealthTimeout ELSE AiTimeout

\* Concurrent callers that pass no options, against a backend that answers
\* every request before the attempt's deadline, with a 200 or a 404, and may
\* be slow to send the body after it
Next ==
    \/ \E c \in Calls, e \in Endpoints :
            OneEndpoint(e) /\ Start(c, e, DefaultTimeout(e), NoOverride)
    \/ \E c \in Calls, status \in {200, 404} : FetchResolves(c, status)
    \/ \E c \in Calls : DeadlineIgnored(c)
    \/ \E c \in Calls : BodyArrives(c, "json")
    \/ Tick

Spec == Init /\ [][Next]_vars

\* One caller, one call at a time, and every outcome of an attempt
NextRetry ==
    \/ Call(1)
    \/ \E status \in Statuses : FetchResolves(1, status)
    \/ \E error \in {FailedToFetch, OtherException} : FetchRejects(1, error)
    \/ DeadlineFires(1)
    \/ DeadlineIgnored(1)
    \/ \E body \in Bodies : BodyArrives(1, body)
    \/ BackoffEnds(1)
    \/ Tick

SpecRetry == Init /\ [][NextRetry]_vars

\* Concurrent callers, each call on any of the three endpoints, against a
\* backend that answers every request, body included, before the attempt's
\* deadline, with a 200 or a 404
NextEndpoints ==
    \/ \E c \in Calls, e \in Endpoints :
            started < MaxMixedStarts /\ Start(c, e, DefaultTimeout(e), NoOverride)
    \/ \E c \in Calls, status \in {200, 404} : FetchResolves(c, status)
    \/ \E c \in Calls : BodyArrives(c, "json")
    \/ Tick

SpecEndpoints == Init /\ [][NextEndpoints]_vars

\* Concurrent callers on one endpoint, against a backend that answers every
\* request, body included, with a 200, a 404 or a 500, all within a time too
\* short for a deadline or a cooldown to end
NextLoop ==
    \/ \E c \in Calls, e \in Endpoints :
            /\ started < MaxLoopStarts
            /\ OneEndpoint(e)
            /\ Start(c, e, DefaultTimeout(e), NoOverride)
    \/ \E c \in Calls, status \in {200, 404, 500} : FetchResolves(c, status)
    \/ \E c \in Calls : BodyArrives(c, "json")

SpecLoop == Init /\ [][NextLoop]_vars

\* One caller that passes no options, one call at a time, against a backend
\* that answers with a 200 or a 500, drops the connection, or does not answer
NextLive ==
    \/ \E e \in Endpoints :
            /\ started < MaxLiveStarts
            /\ OneEndpoint(e)
            /\ Start(1, e, DefaultTimeout(e), NoOverride)
    \/ \E status \in {200, 500} : FetchResolves(1, status)
    \/ FetchRejects(1, FailedToFetch)
    \/ DeadlineFires(1)
    \/ DeadlineIgnored(1)
    \/ BodyArrives(1, "json")
    \/ BackoffEnds(1)
    \/ Tick

\* The event loop runs the callback of every timer that is due, and time
\* goes on: the deadline of an attempt and the end of a backoff wait come.
\* Nothing makes the backend answer, or send the body of its answer.
SpecLive ==
    /\ Init
    /\ [][NextLive]_vars
    /\ WF_vars(Tick)
    /\ WF_vars(DeadlineFires(1))
    /\ WF_vars(DeadlineIgnored(1))
    /\ WF_vars(BackoffEnds(1))

\* The monitor and one caller of health(), against the backend of Next; the
\* caller's calls run in slot 1
NextMonitor ==
    \/ Mount
    \/ handleOnline
    \/ handleOffline
    \/ IntervalFires
    \/ started < MaxCallerStarts /\ Start(1, "health", HealthTimeout, NoOverride)
    \/ \E c \in {1, ProbeSlot}, status \in {200, 404} : FetchResolves(c, status)
    \/ \E c \in {1, ProbeSlot} : DeadlineIgnored(c)
    \/ \E c \in {1, ProbeSlot} : BodyArrives(c, "json")
    \/ Tick

SpecMonitor == Init /\ [][NextMonitor]_vars

---------------------------------------------------------------------------
\* Properties

\* the step is a call by caller c (a call that leaves c's record as it was
\* repeats a rejected call, and is rejected like it)
MakesCall(c) == started' = started + 1 /\ calls'[c] # calls[c]

\* the step lets caller c's call through the breaker to its first fetch
Admitted(c) == calls[c].pc \in {"idle", "done"} /\ calls'[c].pc = "fetching"

\* the step settles caller c's call, which the breaker had let through
Settled(c) == InFlight(calls[c]) /\ calls'[c].pc = "done"

Failed(c) == Settled(c) /\ calls'[c].result.cls # "ok"

Succeeded(c) == Settled(c) /\ calls'[c].result.cls = "ok"

\* C1: the failure that brings an endpoint's consecutive failures to its
\* threshold (5 for suggestions and details, 3 for health) leaves the breaker
\* Open, and no call made on the endpoint before the cooldown has elapsed
\* since then reaches the network: each is rejected with CircuitOpen after
\* zero attempts.
C1_OpenRejectsUntilCooldown ==
    [][\A c \in Calls :
        LET e == calls'[c].endpoint IN
        /\ (Failed(c) /\ breaker[e].failures + 1 = Threshold(e))
                => breaker'[e].state = "OPEN"
        /\ (MakesCall(c) /\ hist[e].sinceThreshold < Cooldown(e))
                => /\ calls'[c].pc = "done"
                   /\ calls'[c].result = CircuitOpenError
                   /\ calls'[c].attemptsMade = 0]_vars

\* C2: while the call let in after the cooldown (the HalfOpen trial) is in
\* flight, no other call on that endpoint is let through to the network.
C2_OneTrialInFlight ==
    [][\A c \in Calls :
        Admitted(c) =>
            ~\E d \in Calls \ {c} :
                /\ InFlight(calls[d])
                /\ calls[d].endpoint = calls'[c].endpoint
                /\ calls[d].role = "trial"]_vars

\* C3: when a call the breaker let through succeeds, the breaker is left
\* with failures = 0 and state Closed (a successful trial after the cooldown
\* included), and a call made on a Closed breaker is let through.
C3_SuccessClosesBreaker ==
    [][\A c \in Calls :
        LET e == calls'[c].endpoint IN
        /\ Succeeded(c) =>
                breaker'[e].failures = 0 /\ breaker'[e].state = "CLOSED"
        /\ (MakesCall(c) /\ breaker[e].state = "CLOSED")
                => calls'[c].pc = "fetching" /\ calls'[c].attemptsMade = 1]_vars

\* a trial let in after the cooldown has succeeded and closed the breaker
C3_Witness ==
    \E c \in Calls :
        /\ calls[c].pc = "done"
        /\ calls[c].role = "trial"
        /\ calls[c].result = OkResult
        /\ breaker[calls[c].endpoint].state = "CLOSED"
        /\ breaker[calls[c].endpoint].failures = 0
        /\ hist[calls[c].endpoint].sinceThreshold = Elapsed(calls[c].endpoint)

\* C4: when the trial call fails, the breaker is Open again with the
\* cooldown counted from that failure, and no call on the endpoint is let
\* through until a full cooldown has elapsed since that failure.
C4_TrialFailureReopens ==
    [][\A c \in Calls :
        LET e == calls'[c].endpoint IN
        /\ (Failed(c) /\ calls[c].role = "trial")
                => breaker'[e].state = "OPEN" /\ breaker'[e].sinceFailure = 0
        /\ Admitted(c) => ~(hist[e].sinceTrialFailed < Cooldown(e))]_vars

\* maxAttempts as the retry configuration states it: the per-call override,
\* or 2 for health and 3 for suggestions, details and any other endpoint
ClaimedMaxAttempts(cl) ==
    IF cl.override # NoOverride THEN cl.override
    ELSE IF cl.endpoint = "health" THEN 2 ELSE 3

\* baseDelayMs as the retry configuration states it
ClaimedBaseDelay(cl) ==
    IF cl.endpoint = "health" THEN 500
    ELSE IF cl.endpoint \in {"suggestions", "details"} THEN 2000 ELSE 1000

\* C5: whatever the attempts' outcomes, a call makes at most maxAttempts + 1
\* network attempts.
C5_AttemptsBounded ==
    \A c \in Calls : calls[c].attemptsMade <= ClaimedMaxAttempts(calls[c]) + 1

\* a suggestions call without override has made its fourth and last attempt
\* and failed
C5_Witness ==
    \E c \in Calls :
        /\ calls[c].pc = "done"
        /\ calls[c].endpoint = "suggestions"
        /\ calls[c].override = NoOverride
        /\ calls[c].attemptsMade = 4
        /\ calls[c].result.cls # "ok"

\* the error of a failed attempt is retryable: a 5xx, 429 or 408 response, a
\* deadline timeout or a network failure
RetryableFailure(err) ==
    \/ err.cls = "ApiError" /\ (err.status >= 500 \/ err.status \in {429, 408})
    \/ err.cls \in {"TimeoutError", "NetworkError"}

\* C6: attempt a + 1, coming after a retryable failure of attempt a, starts
\* baseDelayMs * 2^a after that failure.
C6_BackoffBeforeEveryRetry ==
    \A c \in Calls :
        (calls[c].pc = "fetching" /\ calls[c].attempt >= 1
            /\ RetryableFailure(calls[c].lastError))
        => calls[c].lastWait = ClaimedBaseDelay(calls[c]) * Pow2(calls[c].attempt - 1)

\* the error of a failed attempt is not retryable: a 4xx response other than
\* 408 and 429, or a 2xx response whose body does not parse
NonRetryableFailure(err) ==
    /\ err.cls = "ApiError"
    /\ \/ err.status >= 400 /\ err.status <= 499 /\ err.status \notin {408, 429}
       \/ IsOk(err.status) /\ err.errorCode = "parse_error"

\* C7: once an attempt has failed with a non-retryable error the call is
\* over: that error is its result, no backoff wait and no further attempt
\* follow, and when it was the first attempt the call has made one attempt.
C7_NonRetryableEndsCall ==
    \A c \in Calls :
        NonRetryableFailure(calls[c].lastError) =>
            /\ calls[c].pc = "done"
            /\ calls[c].result = calls[c].lastError
            /\ calls[c].waited = 0
            /\ calls[c].attemptsMade = calls[c].attempt + 1

\* a call with retries left has ended on a 404 to its first attempt, and one
\* has ended on an unparsable 200
C7_Witness ==
    \E c \in Calls :
        /\ calls[c].pc = "done"
        /\ calls[c].retries >= 2
        /\ calls[c].attemptsMade = 1
        /\ calls[c].result.cls = "ApiError"
        /\ calls[c].result.status = 404

\* C8: an attempt still incomplete when its deadline expires resolves as a
\* Timeout, which is retryable and is retried as long as attempts are left.
C8_DeadlineEndsAttempt ==
    \A c \in Calls :
        /\ ~calls[c].overrun
        /\ calls[c].lastError.cls = "TimeoutError" =>
                /\ calls[c].lastError.isRetryable
                /\ calls[c].pc = "done" => calls[c].attempt = calls[c].retries

\* C9: a health call whose every attempt is answered with HTTP 500 makes
\* exactly 2 attempts, 500 ms apart, and surfaces the server error.
C9_ScenarioA ==
    \A c \in Calls :
        (/\ calls[c].pc = "done"
         /\ calls[c].endpoint = "health"
         /\ calls[c].attemptsMade >= 1
         /\ calls[c].all500
         /\ calls[c].result.cls # "ok")
        => /\ calls[c].attemptsMade = 2
           /\ calls[c].lastWait = 500
           /\ calls[c].result.cls = "ApiError"
           /\ calls[c].result.status = 500

\* what a caller can branch on: an ApiError with its status, error code and
\* retryable flag
Structured(err) ==
    /\ InstanceOfApiError(err)
    /\ err.status \in Nat
    /\ err.isRetryable \in BOOLEAN

\* C10: every call that fails, rejected by the breaker, on a non-retryable
\* error or with its retries exhausted, surfaces a structured error value.
C10_FailuresAreStructured ==
    \A c \in Calls :
        (calls[c].pc = "done" /\ calls[c].result.cls # "ok")
            => Structured(calls[c].result)

\* a call has run out of attempts on a bare exception and surfaced a
\* NetworkError
C10_Witness ==
    \E c \in Calls :
        /\ calls[c].pc = "done"
        /\ calls[c].attemptsMade = calls[c].retries + 1
        /\ ~InstanceOfApiError(calls[c].lastError)
        /\ calls[c].lastError.cls # "none"
        /\ calls[c].result = NetworkError

\* C11: before any call every breaker (health, suggestions, details) is
\* Closed with failures = 0, and the first call made on an endpoint is let
\* through to the network.
C11_BreakersStartClosed ==
    /\ started = 0 =>
            \A e \in Endpoints :
                breaker[e].state = "CLOSED" /\ breaker[e].failures = 0
    /\ started = 1 =>
            \A c \in Calls :
                /\ calls[c].result # CircuitOpenError
                /\ calls[c].pc # "idle" => calls[c].attemptsMade >= 1

\* the first call of a run, on details, is fetching
C11_Witness ==
    /\ started = 1
    /\ \E c \in Calls :
            /\ calls[c].pc = "fetching"
            /\ calls[c].endpoint = "details"
            /\ calls[c].attemptsMade = 1

\* the attempt failed without a response: fetch rejected (converted to a
\* NetworkError when it is the TypeError 'Failed to fetch')
NoResponse(err) == err.cls \in {"NetworkError", "TypeError", "Error"}

\* C12: the error made of a non-2xx response with status s is retryable
\* exactly when s is in 500..599 or is 429 or 408, so not for any other
\* status in 400..499, and ApiError.isRetryable agrees with its flag; a
\* failure without a response is retried, and surfaces as a NetworkError
\* that is retryable.
C12_TaxonomyMatchesTable ==
    \A c \in Calls :
        LET err == calls[c].lastError IN
        /\ (err.cls = "ApiError" /\ err.errorCode = "http_error") =>
                /\ ~IsOk(err.status)
                /\ err.isRetryable <=>
                        \/ err.status >= 500 /\ err.status <= 599
                        \/ err.status \in {429, 408}
                /\ (err.status >= 400 /\ err.status <= 499
                        /\ err.status \notin {429, 408}) => ~err.isRetryable
                /\ ApiError_isRetryable(err) <=> err.isRetryable
        /\ (NoResponse(err) /\ calls[c].result.cls # "ok") =>
                IF calls[c].pc = "done"
                THEN /\ calls[c].result = NetworkError
                     /\ calls[c].result.isRetryable
                     /\ ApiError_isRetryable(calls[c].result)
                ELSE InFlight(calls[c])

\* a call has used all its attempts on 429 responses and surfaced the
\* retryable error
C12_Witness ==
    \E c \in Calls :
        /\ calls[c].pc = "done"
        /\ calls[c].attemptsMade = calls[c].retries + 1
        /\ calls[c].retries >= 1
        /\ calls[c].result.cls = "ApiError"
        /\ calls[c].result.status = 429
        /\ calls[c].result.isRetryable

\* the breaker threw the call out before any network attempt
Rejected(cl) == cl.pc = "done" /\ cl.result.errorCode = "circuit_breaker_open"

\* C13: the error of a call rejected by the breaker is not retryable, by
\* the flag it carries and by ApiError.isRetryable alike, and the rejected
\* call makes no attempt.
C13_CircuitOpenNotRetryable ==
    \A c \in Calls :
        Rejected(calls[c]) =>
            /\ calls[c].attemptsMade = 0
            /\ ~calls[c].result.isRetryable
            /\ ~ApiError_isRetryable(calls[c].result)

\* C14: isHealthy never raises: its promise resolves to true exactly when
\* the health call with the 3 s timeout succeeds, and to false for every
\* error of that call, a timeout after the retries and a rejection by the
\* health breaker included.
C14_IsHealthyNeverRaises ==
    \A c \in Calls :
        (calls[c].pc = "done" /\ ViaIsHealthy(calls[c])) =>
            /\ calls[c].healthy \in {"true", "false"}
            /\ calls[c].healthy = "true" <=> calls[c].result = OkResult

\* an isHealthy call has timed out on all three attempts and resolved to false
C14_Witness ==
    \E c \in Calls :
        /\ calls[c].pc = "done"
        /\ ViaIsHealthy(calls[c])
        /\ calls[c].result = TimeoutError
        /\ calls[c].attemptsMade = 3
        /\ calls[c].healthy = "false"

\* the step is one of caller c's call: something other than the time left
\* on its timers changes
Acts(c) ==
    [calls'[c] EXCEPT !.timer = 0, !.waited = 0]
        # [calls[c] EXCEPT !.timer = 0, !.waited = 0]

\* C15: calls on different endpoints are independent: whatever the
\* interleaving of calls on health, suggestions and details, an endpoint's
\* breaker changes its state or failures only in a step of a call on that
\* endpoint, and its time since the last failure otherwise only by the
\* passing of time.
C15_EndpointsIndependent ==
    [][\A f \in Endpoints :
        breaker'[f] # breaker[f] =>
            \/ /\ \A c \in Calls : ~Acts(c)
               /\ breaker'[f].state = breaker[f].state
               /\ breaker'[f].failures = breaker[f].failures
            \/ \E c \in Calls :
                    /\ Acts(c)
                    /\ calls'[c].endpoint = f
                    /\ \A d \in Calls \ {c} : ~Acts(d)]_vars

\* the health breaker is Open after its three failures while a suggestions
\* call is let through and the suggestions breaker is as constructed
C15_Witness ==
    /\ breaker["health"].state = "OPEN"
    /\ breaker["health"].failures = 3
    /\ breaker["suggestions"] = NewBreaker
    /\ \E c \in Calls :
            calls[c].endpoint = "suggestions" /\ calls[c].pc = "fetching"

\* the step is a call of checkHealth by the monitor
ProbeInitiated == monitor'.probes = monitor.probes + 1

\* the step takes the monitor's isOnline from false to true
BecomesOnline == ~monitor.isOnline /\ monitor'.isOnline

\* C16: the monitor initiates a health probe only while it reports online:
\* at once when it is mounted or becomes online, then one polling period
\* (30 s) after the probe before; no period passes online without a probe;
\* becoming offline cancels the interval, and none runs while offline.
C16_ProbesOnlyWhileOnline ==
    [][/\ ProbeInitiated =>
            /\ monitor'.isOnline
            /\ \/ ~monitor.mounted
               \/ BecomesOnline
               \/ monitor.isOnline /\ monitor.sinceProbe = PollInterval
       /\ BecomesOnline => ProbeInitiated /\ monitor'.interval = PollInterval
       /\ (monitor'.mounted /\ monitor'.isOnline) =>
            /\ monitor'.sinceProbe <= PollInterval
            /\ monitor'.interval = PollInterval - monitor'.sinceProbe
       /\ ~monitor'.isOnline => monitor'.interval = NoTimer]_vars

\* the monitor is offline some time after its second probe, with no interval
C16_Witness ==
    /\ monitor.mounted
    /\ ~monitor.isOnline
    /\ monitor.probes = 2
    /\ monitor.sinceProbe > 0
    /\ monitor.interval = NoTimer

\* the step is one of the monitor's probe: its call, an await of it that
\* resumes, or its settling
ProbeActs == ProbeInitiated \/ (calls'[ProbeSlot].probe /\ Acts(ProbeSlot))

\* C17: the monitor only observes: no step of one of its health probes
\* changes a breaker's state, failures or time since the last failure, so
\* the probes leave the admission and outcome of the callers' requests as
\* they would be without them.
C17_MonitorOnlyObserves ==
    [][ProbeActs => breaker' = breaker]_vars

\* C18: a breaker goes from Closed to Open only in a step in which a call on
\* its endpoint fails and brings failures to the threshold or above; a
\* failure that leaves failures below the threshold leaves it Closed.
C18_OpensOnlyAtThreshold ==
    [][\A e \in Endpoints :
        /\ (breaker[e].state = "CLOSED" /\ breaker'[e].state = "OPEN") =>
                /\ \E c \in Calls : Failed(c) /\ calls'[c].endpoint = e
                /\ breaker'[e].failures = breaker[e].failures + 1
                /\ breaker'[e].failures >= Threshold(e)
        /\ (/\ breaker[e].state = "CLOSED"
            /\ \E c \in Calls : Failed(c) /\ calls'[c].endpoint = e
            /\ breaker[e].failures + 1 < Threshold(e)) =>
                /\ breaker'[e].state = "CLOSED"
                /\ breaker'[e].failures = breaker[e].failures + 1]_vars

\* the suggestions breaker has just opened on its fifth failure
C18_Witness ==
    /\ breaker["suggestions"].state = "OPEN"
    /\ breaker["suggestions"].failures = 5
    /\ hist["suggestions"].sinceOpened = 0

\* C19: a breaker goes from Open to HalfOpen only in a step in which a call
\* arrives on its endpoint when at least the cooldown has passed since the
\* breaker last became Open; a call arriving earlier leaves it Open.
C19_HalfOpenOnlyAfterCooldown ==
    [][\A e \in Endpoints :
        /\ (breaker[e].state = "OPEN" /\ breaker'[e].state = "HALF_OPEN") =>
                /\ \E c \in Calls : Admitted(c) /\ calls'[c].endpoint = e
                /\ hist[e].sinceOpened >= Cooldown(e)
        /\ (/\ breaker[e].state = "OPEN"
            /\ hist[e].sinceOpened < Cooldown(e)
            /\ \E c \in Calls : MakesCall(c) /\ calls'[c].endpoint = e) =>
                breaker'[e].state = "OPEN"]_vars

\* the health breaker is HalfOpen with the call that arrived after the
\* cooldown in flight
C19_Witness ==
    /\ breaker["health"].state = "HALF_OPEN"
    /\ hist["health"].sinceOpened = Elapsed("health")
    /\ \E c \in Calls :
            /\ calls[c].endpoint = "health"
            /\ calls[c].role = "trial"
            /\ calls[c].pc = "fetching"

\* C20: a call is rejected with CircuitOpen only when the breaker is Open
\* and less than the cooldown has passed since it became Open; a call that
\* arrives on an Open breaker when the cooldown has passed is let in as the
\* trial.
C20_RejectsOnlyInsideCooldown ==
    [][\A c \in Calls :
        LET e == calls'[c].endpoint IN
        /\ (MakesCall(c) /\ Rejected(calls'[c])) =>
                breaker[e].state = "OPEN" /\ hist[e].sinceOpened < Cooldown(e)
        /\ (/\ MakesCall(c)
            /\ breaker[e].state = "OPEN"
            /\ hist[e].sinceOpened >= Cooldown(e)) =>
                /\ calls'[c].pc = "fetching"
                /\ calls'[c].role = "trial"
                /\ breaker'[e].state = "HALF_OPEN"]_vars

\* the error is one the taxonomy has as retryable: a 5xx, 429 or 408
\* response, a deadline timeout, or a failure without a response
Retryable(err) == RetryableFailure(err) \/ NoResponse(err)

\* C21: a call makes a further attempt after the failed attempt a only when
\* that attempt's error is retryable and a < maxAttempts; otherwise the call
\* is over with the classified error as its result.
C21_RetryOnlyIfPermitted ==
    \A c \in Calls :
        LET cl == calls[c]
            max == ClaimedMaxAttempts(cl)
        IN  /\ (InFlight(cl) /\ cl.lastError.cls # "none") =>
                    /\ Retryable(cl.lastError)
                    /\ IF cl.pc = "backoff"
                       THEN cl.attempt < max
                       ELSE cl.attempt >= 1 /\ cl.attempt - 1 < max
            /\ (cl.pc = "done" /\ cl.attemptsMade >= 1 /\ cl.result.cls # "ok") =>
                    /\ ~Retryable(cl.lastError) \/ cl.attempt = max
                    /\ cl.result = Surface(cl.lastError)

\* a call is on its third attempt after a deadline timeout of the second
C21_Witness ==
    \E c \in Calls :
        /\ calls[c].pc = "fetching"
        /\ calls[c].attempt = 2
        /\ calls[c].lastError = TimeoutError

\* the step ends an attempt of caller c's call in failure: the call goes on
\* to wait or to its next attempt, or is over with an error
AttemptFails(c) ==
    /\ calls[c].pc \in {"fetching", "reading"}
    /\ \/ calls'[c].pc = "backoff"
       \/ calls'[c].pc = "fetching" /\ calls'[c].attempt = calls[c].attempt + 1
       \/ calls'[c].pc = "done" /\ calls'[c].result.cls # "ok"

\* C22: every failed attempt of a call's retry loop is reported to the
\* endpoint's breaker as a failure, so k failed attempts are k failures.
C22_EveryAttemptReported ==
    [][\A c \in Calls :
        AttemptFails(c) =>
            breaker'[calls[c].endpoint].failures
                = breaker[calls[c].endpoint].failures + 1]_vars

C24_EveryFailureCounts ==
    [][\A c \in Calls :
        LET e == calls'[c].endpoint IN
        Failed(c) =>
            /\ breaker'[e].failures = breaker[e].failures + 1
            /\ breaker'[e].sinceFailure = 0
            /\ breaker'[e].failures >= Threshold(e) => breaker'[e].state = "OPEN"]_vars

\* the health breaker has opened on a call that ended with its first
\* attempt's 404
C24_Witness ==
    /\ breaker["health"].state = "OPEN"
    /\ breaker["health"].failures = 3
    /\ breaker["health"].sinceFailure = 0
    /\ \E c \in Calls :
            /\ calls[c].pc = "done"
            /\ calls[c].endpoint = "health"
            /\ calls[c].attemptsMade = 1
            /\ calls[c].result = ApiError(404, "http_error", FALSE)

\* C25: a breaker never goes from Open straight to Closed, and no step
\* lowers the failures of an Open breaker: the completion of a call let in
\* before the breaker opened leaves an Open breaker as it is.
C25_NoOpenToClosed ==
    [][\A e \in Endpoints :
        breaker[e].state = "OPEN" =>
            /\ breaker'[e].state # "CLOSED"
            /\ breaker'[e].failures >= breaker[e].failures]_vars

\* C26: in every reachable state a breaker is Closed exactly when its
\* failures are below the threshold, and so Open or HalfOpen only with
\* failures at or above it.
C26_ClosedIffBelowThreshold ==
    \A e \in Endpoints :
        /\ breaker[e].state = "CLOSED" <=> breaker[e].failures < Threshold(e)
        /\ breaker[e].state \in {"OPEN", "HALF_OPEN"}
                => breaker[e].failures >= Threshold(e)

\* the health breaker is HalfOpen with two calls in flight and more failures
\* than its threshold
C26_Witness ==
    /\ breaker["health"].state = "HALF_OPEN"
    /\ breaker["health"].failures > Threshold("health")
    /\ \A c \in Calls : calls[c].endpoint = "health" => InFlight(calls[c])

\* C27: a call rejected with CircuitOpen leaves the breaker as it was:
\* failures, the time since the last failure and the state are unchanged.
C27_RejectionLeavesBreaker ==
    [][(started' = started + 1 /\ \A c \in Calls : ~Admitted(c))
            => breaker' = breaker]_vars

\* a call has been rejected by the health breaker 5000 ms into the cooldown
C27_Witness ==
    /\ breaker["health"].state = "OPEN"
    /\ breaker["health"].sinceFailure = 5000
    /\ hist["health"].sinceOpened = 5000
    /\ \E c \in Calls : Rejected(calls[c]) /\ calls[c].endpoint = "health"

\* C28: the breaker is consulted once per call, before its first attempt: a
\* call that was let through is never rejected later, its retry loop goes on
\* to the next attempt whatever the breaker's state has become and changes
\* nothing in the breaker, and the breaker gets the call's one outcome in the
\* step in which the loop ends.
C28_BreakerConsultedOnce ==
    [][\A c \in Calls :
        LET e == calls[c].endpoint IN
        /\ Rejected(calls'[c]) => calls'[c].attemptsMade = 0
        /\ (InFlight(calls[c]) /\ Acts(c) /\ ~Settled(c)) => breaker' = breaker
        /\ (/\ calls[c].pc = "reading"
            /\ Acts(c)
            /\ IsRetryableStatus(calls[c].respStatus)
            /\ calls[c].attempt < ClaimedMaxAttempts(calls[c])) =>
                /\ calls'[c].pc = "fetching"
                /\ calls'[c].attempt = calls[c].attempt + 1
        /\ Failed(c) =>
                /\ breaker'[e].failures = breaker[e].failures + 1
                /\ calls'[c].attemptsMade <= ClaimedMaxAttempts(calls[c]) + 1
        /\ Succeeded(c) =>
                breaker'[e].failures = 0 /\ breaker'[e].state = "CLOSED"]_vars

\* a suggestions call let in while the breaker was Closed is making its
\* fourth attempt with the breaker Open
C28_Witness ==
    /\ breaker["suggestions"].state = "OPEN"
    /\ \E c \in Calls :
            /\ calls[c].endpoint = "suggestions"
            /\ calls[c].role = "normal"
            /\ calls[c].pc = "fetching"
            /\ calls[c].attemptsMade = 4

\* C29: whenever the monitor reports offline it reports the API as not
\* healthy, also when a probe made while online settles after the monitor
\* went offline.
C29_OfflineMeansUnhealthy ==
    (monitor.mounted /\ ~monitor.isOnline) => monitor.isApiHealthy = "false"

\* C30: every call that is let through settles, with a result or an error,
\* and no breaker stays HalfOpen forever, whatever the backend does, given
\* that every timer that is due fires.
C30_EveryCallSettles ==
    /\ \A c \in Calls : InFlight(calls[c]) ~> calls[c].pc = "done"
    /\ \A e \in Endpoints :
            breaker[e].state = "HALF_OPEN" ~> breaker[e].state # "HALF_OPEN"

====
